---- MODULE Spec2Model ----
(***************************************************************************)
(* A model of scripts/airgradient.py: the indentation-driven YAML-subset   *)
(* parser parse_yaml (with its scalar lexer parse_value and its finalize   *)
(* pass) and the line-oriented config patcher set_config_value.            *)
(*                                                                         *)
(* Text is modelled character by character: a line is a sequence of        *)
(* one-character strings.  Python objects live in a heap (dicts and lists  *)
(* are mutable and are referred to by identity), so that a Frame's         *)
(* container is a reference exactly as in the source.                      *)
(***************************************************************************)
EXTENDS Integers, Sequences, FiniteSets, TLC

VARIABLES
    frames,     \* parse_yaml: the list `frames` of Frame objects
    heap,       \* the dict and list objects parse_yaml has allocated; heap[1] is `root`
    raw_line,   \* parse_yaml: the loop variable `raw_line` (the line read last)
    status,     \* "running" (in the loop), "error" (an exception escaped), "done" (returned)
    error,      \* the exception that escaped parse_yaml: its kind and the line in its message
    result,     \* the value parse_yaml returned
    nlines,     \* how many lines of the text have been read
    cfg_file,     \* set_config_value: the lines of the file at config_path
    cfg_key_path, \* set_config_value: the argument key_path
    cfg_value,    \* set_config_value: the argument value
    cfg_lines,    \* set_config_value: the list `lines`
    cfg_keys,     \* set_config_value: the list `keys`
    cfg_indent,   \* set_config_value: `indent`
    cfg_idx,      \* set_config_value: `idx`
    cfg_found,    \* set_config_value: `found`
    cfg_pc,       \* set_config_value: "off" (not called), "loop", "written", "raised"
    pv_raw,       \* parse_value: the argument raw
    pv_out,       \* parse_value: the value returned
    pv_pc,        \* parse_value: "off" (not called), "called", "returned"
    nd_config,    \* normalize_device: the argument config
    nd_hint,      \* normalize_device: the argument device_hint
    nd_out,       \* normalize_device: the device returned or the exception raised
    nd_pc,        \* normalize_device: "off" (not called), "called", "returned", "raised"
    al_value,     \* alerts_for_reading: the value handed to the check made last
    al_rules,     \* alerts_for_reading: the rules handed to the check made last
    al_alerts,    \* alerts_for_reading: the list `alerts`
    al_code,      \* print_alerts: the severity returned
    al_pc         \* alerts_for_reading and print_alerts: the call to be made next, or "off"

\* The state of parse_yaml.
pvars == <<frames, heap, raw_line, status, error, result, nlines>>

\* The state of set_config_value.
cvars == <<cfg_file, cfg_key_path, cfg_value, cfg_lines, cfg_keys, cfg_indent, cfg_idx,
           cfg_found, cfg_pc>>

\* The state of a call of parse_value.
lvars == <<pv_raw, pv_out, pv_pc>>

\* The state of a call of normalize_device.
dvars == <<nd_config, nd_hint, nd_out, nd_pc>>

\* The state of alerts_for_reading and print_alerts.
avars == <<al_value, al_rules, al_alerts, al_code, al_pc>>

\* The state of the calls that are not parse_yaml or set_config_value.
ovars == <<lvars, dvars, avars>>

vars == <<pvars, cvars, ovars>>

(***************************************************************************)
(* Bounds of the model.                                                    *)
(***************************************************************************)
\* The longest text parsed, in lines.
MaxLines == 4
\* The largest number of leading spaces of a line.
MaxIndent == 4
\* The longest config file patched, in lines.
MaxCfgLines == 3

(***************************************************************************)
(* Characters and strings.                                                 *)
(***************************************************************************)
\* str.strip() and str.split() whitespace met in the texts of the model.
IsSpace(c) == c \in {" ", "\t", "\n", "\r"}

Digits == <<"0", "1", "2", "3", "4", "5", "6", "7", "8", "9">>

IsDigit(c) == \E i \in 1..10 : Digits[i] = c

DigitVal(c) == (CHOOSE i \in 1..10 : Digits[i] = c) - 1

\* s[i:] of Python, for a 1-based first index i.
From(s, i) == SubSeq(s, i, Len(s))

\* s.startswith(p)
StartsWith(s, p) == Len(s) >= Len(p) /\ SubSeq(s, 1, Len(p)) = p

\* s.endswith(p)
EndsWith(s, p) == Len(s) >= Len(p) /\ SubSeq(s, Len(s) - Len(p) + 1, Len(s)) = p

\* c in s
Contains(s, c) == \E i \in 1..Len(s) : s[i] = c

\* The 1-based index of the first c in s (s must contain c).
IndexOf(s, c) == CHOOSE i \in 1..Len(s) : s[i] = c /\ \A j \in 1..(i - 1) : s[j] # c

\* s.split(c, 1)[0]
SplitHead(s, c) == IF Contains(s, c) THEN SubSeq(s, 1, IndexOf(s, c) - 1) ELSE s

\* s.split(c, 1)[1], for an s that contains c
SplitRest(s, c) == From(s, IndexOf(s, c) + 1)

\* len(s) - len(s.lstrip(" ")): the number of leading space characters.
LeadingSpaces(s) ==
    IF \A i \in 1..Len(s) : s[i] = " " THEN Len(s)
    ELSE (CHOOSE i \in 1..Len(s) : s[i] # " " /\ \A j \in 1..(i - 1) : s[j] = " ") - 1

\* s.lstrip()
LStrip(s) ==
    IF \A i \in 1..Len(s) : IsSpace(s[i]) THEN <<>>
    ELSE From(s, CHOOSE i \in 1..Len(s) : ~IsSpace(s[i]) /\ \A j \in 1..(i - 1) : IsSpace(s[j]))

\* s.rstrip()
RStrip(s) ==
    IF \A i \in 1..Len(s) : IsSpace(s[i]) THEN <<>>
    ELSE SubSeq(s, 1, CHOOSE i \in 1..Len(s) :
                         ~IsSpace(s[i]) /\ \A j \in (i + 1)..Len(s) : IsSpace(s[j]))

\* s.strip()
Strip(s) == RStrip(LStrip(s))

\* n space characters.
Spaces(n) == [i \in 1..n |-> " "]

\* s.lower(), on the letters the keywords of parse_value are written with.
LowerChar(c) ==
    CASE c = "T" -> "t" [] c = "R" -> "r" [] c = "U" -> "u" [] c = "E" -> "e"
      [] c = "F" -> "f" [] c = "A" -> "a" [] c = "L" -> "l" [] c = "S" -> "s"
      [] c = "N" -> "n" [] c = "O" -> "o" [] OTHER -> c

Lower(s) == [i \in 1..Len(s) |-> LowerChar(s[i])]

(***************************************************************************)
(* Python values.  Every value is a record of the same four fields: its    *)
(* type t, and for a str its characters s, for an int or a bool its number *)
(* n, for a float the decimal n / 10^d, for a reference to a dict or list  *)
(* object the object's place n in the heap.                                *)
(***************************************************************************)
Val(t, s, n, d) == [t |-> t, s |-> s, n |-> n, d |-> d]

\* The sentinel PENDING = object().
PENDING == Val("pending", <<>>, 0, 0)

\* None
NoneVal == Val("none", <<>>, 0, 0)

StrVal(s) == Val("str", s, 0, 0)

IntVal(n) == Val("int", <<>>, n, 0)

BoolVal(b) == Val("bool", <<>>, IF b THEN 1 ELSE 0, 0)

RECURSIVE Normalize(_, _)
\* The decimal n / 10^d without trailing zeros in its fraction.
Normalize(n, d) == IF d > 0 /\ n % 10 = 0 THEN Normalize(n \div 10, d - 1) ELSE <<n, d>>

FloatVal(n, d) == Val("float", <<>>, Normalize(n, d)[1], Normalize(n, d)[2])

\* A reference to the dict or list object heap[id].
Ref(id) == Val("ref", <<>>, id, 0)

IsRef(v) == v.t = "ref"

(***************************************************************************)
(* int(raw) and float(raw), on ASCII text.                                 *)
(***************************************************************************)
\* Digits with single underscores between them.
IsDigitRun(s) ==
    /\ s # <<>>
    /\ \A i \in 1..Len(s) : IsDigit(s[i]) \/ s[i] = "_"
    /\ IsDigit(s[1]) /\ IsDigit(s[Len(s)])
    /\ \A i \in 1..(Len(s) - 1) : ~(s[i] = "_" /\ s[i + 1] = "_")

RECURSIVE DigitsValue(_)
\* The number a digit run is the decimal notation of.
DigitsValue(s) ==
    IF s = <<>> THEN 0
    ELSE IF s[Len(s)] = "_" THEN DigitsValue(SubSeq(s, 1, Len(s) - 1))
    ELSE DigitsValue(SubSeq(s, 1, Len(s) - 1)) * 10 + DigitVal(s[Len(s)])

CountDigits(s) == Cardinality({i \in 1..Len(s) : IsDigit(s[i])})

HasSign(s) == s # <<>> /\ s[1] \in {"+", "-"}

Unsigned(s) == IF HasSign(s) THEN Tail(s) ELSE s

SignOf(s) == IF s # <<>> /\ s[1] = "-" THEN -1 ELSE 1

RECURSIVE Pow10(_)
Pow10(k) == IF k <= 0 THEN 1 ELSE 10 * Pow10(k - 1)

\* int(raw) does not raise ValueError.
IsIntLiteral(s) == IsDigitRun(Unsigned(Strip(s)))

IntOf(s) == SignOf(Strip(s)) * DigitsValue(Unsigned(Strip(s)))

HasExponent(s) == Contains(s, "e") \/ Contains(s, "E")

ExponentAt(s) ==
    CHOOSE i \in 1..Len(s) : s[i] \in {"e", "E"} /\ \A j \in 1..(i - 1) : s[j] \notin {"e", "E"}

Mantissa(s) == IF HasExponent(s) THEN SubSeq(s, 1, ExponentAt(s) - 1) ELSE s

Exponent(s) == IF HasExponent(s) THEN From(s, ExponentAt(s) + 1) ELSE <<"0">>

IsMantissa(m) ==
    /\ Contains(m, ".")
    /\ LET ip == SplitHead(m, ".")
           fp == SplitRest(m, ".")
       IN /\ ip = <<>> \/ IsDigitRun(ip)
          /\ fp = <<>> \/ IsDigitRun(fp)
          /\ ip # <<>> \/ fp # <<>>

\* float(raw) does not raise ValueError, for a raw that contains ".".
IsFloatLiteral(s) ==
    LET u == Unsigned(Strip(s))
    IN IsMantissa(Mantissa(u)) /\ IsDigitRun(Unsigned(Exponent(u)))

FloatOf(s) ==
    LET u  == Unsigned(Strip(s))
        m  == Mantissa(u)
        ip == SplitHead(m, ".")
        fp == SplitRest(m, ".")
        e  == SignOf(Exponent(u)) * DigitsValue(Unsigned(Exponent(u)))
        n  == SignOf(Strip(s)) * (DigitsValue(ip) * Pow10(CountDigits(fp)) + DigitsValue(fp))
        sh == e - CountDigits(fp)
    IN IF sh >= 0 THEN FloatVal(n * Pow10(sh), 0) ELSE FloatVal(n, -sh)

(***************************************************************************)
(* parse_value: the scalar lexer.                                          *)
(***************************************************************************)
parse_value(raw) ==
    IF StartsWith(raw, <<"\"">>) /\ EndsWith(raw, <<"\"">>) THEN StrVal(SubSeq(raw, 2, Len(raw) - 1))
    ELSE IF StartsWith(raw, <<"'">>) /\ EndsWith(raw, <<"'">>) THEN StrVal(SubSeq(raw, 2, Len(raw) - 1))
    ELSE IF Lower(raw) \in {<<"t", "r", "u", "e">>, <<"f", "a", "l", "s", "e">>}
         THEN BoolVal(Lower(raw) = <<"t", "r", "u", "e">>)
    ELSE IF Lower(raw) \in {<<"n", "u", "l", "l">>, <<"n", "o", "n", "e">>} THEN NoneVal
    ELSE IF Contains(raw, ".")
         THEN (IF IsFloatLiteral(raw) THEN FloatOf(raw) ELSE StrVal(raw))
    ELSE IF IsIntLiteral(raw) THEN IntVal(IntOf(raw))
    ELSE StrVal(raw)

(***************************************************************************)
(* The heap: dict and list objects.  A dict keeps its keys in insertion    *)
(* order, keys[i] bound to vals[i]; a list has no keys.                    *)
(***************************************************************************)
NewDict == [kind |-> "dict", keys |-> <<>>, vals |-> <<>>]

NewList == [kind |-> "list", keys |-> <<>>, vals |-> <<>>]

\* isinstance(v, dict), for a value v under heap hp
IsDict(hp, v) == IsRef(v) /\ hp[v.n].kind = "dict"

\* isinstance(v, list)
IsList(hp, v) == IsRef(v) /\ hp[v.n].kind = "list"

\* k in o
DictHas(o, k) == \E i \in 1..Len(o.keys) : o.keys[i] = k

\* o[k], for a dict o that has the key k
DictGet(o, k) == o.vals[CHOOSE i \in 1..Len(o.keys) : o.keys[i] = k]

\* o[k] = v
DictSet(o, k, v) ==
    IF DictHas(o, k)
    THEN [o EXCEPT !.vals[CHOOSE i \in 1..Len(o.keys) : o.keys[i] = k] = v]
    ELSE [o EXCEPT !.keys = Append(@, k), !.vals = Append(@, v)]

\* o.append(v)
ListAppend(o, v) == [o EXCEPT !.vals = Append(@, v)]

\* o.get(k, None) is PENDING
SlotIsPending(o, k) == DictHas(o, k) /\ DictGet(o, k) = PENDING

(***************************************************************************)
(* parse_yaml: frames, errors and the steps of its loop body.              *)
(***************************************************************************)
\* Frame(indent, container, last_key); last_key None is has_key FALSE.
Frame(indent, container) ==
    [indent |-> indent, container |-> container, has_key |-> FALSE, last_key |-> <<>>]

NoError == [kind |-> "none", line |-> <<>>]

\* An exception leaving parse_yaml; line is the raw line its message quotes.
Err(kind, line) == [kind |-> kind, line |-> line]

\* What a step of the loop body leaves: the frames, the heap, and the exception raised if any.
Step(fs, hp, err) == [frames |-> fs, heap |-> hp, err |-> err]

\* A mutant of StripComment: comments are not stripped.
StripComment_keeps(raw) == raw

\* line = raw_line.split("#", 1)[0].rstrip("\n")
StripComment(raw) == SplitHead(raw, "#")

\* not line.strip()
IsBlank(line) == Strip(line) = <<>>

\* indent = len(line) - len(line.lstrip(" "))
IndentOf(line) == LeadingSpaces(line)

\* indent % 2 != 0
OddIndent(indent) == indent % 2 # 0

\* stripped.startswith("- ")
IsItemLine(stripped) == StartsWith(stripped, <<"-", " ">>)

\* A mutant of BadJump: any deeper indent is accepted as one level deeper.
BadJump_never(indent, frame_indent) == FALSE

\* indent != frame.indent + 2
BadJump(indent, frame_indent) == indent # frame_indent + 2

\* A mutant of FreshContainer: a pending key always becomes a mapping.
FreshContainer_mapping(stripped) == NewDict

\* [] if stripped.startswith("- ") else {}: what a pending key becomes at its first child line
FreshContainer(stripped) == IF IsItemLine(stripped) THEN NewList ELSE NewDict

RECURSIVE PopFrames_pops_equal(_, _)
\* A mutant of PopFrames: a frame at the indent of the line is popped too.
PopFrames_pops_equal(fs, indent) ==
    IF fs # <<>> /\ indent <= fs[Len(fs)].indent
    THEN PopFrames_pops_equal(SubSeq(fs, 1, Len(fs) - 1), indent)
    ELSE fs

RECURSIVE PopFrames(_, _)
\* while frames and indent < frames[-1].indent: frames.pop()
PopFrames(fs, indent) ==
    IF fs # <<>> /\ indent < fs[Len(fs)].indent
    THEN PopFrames(SubSeq(fs, 1, Len(fs) - 1), indent)
    ELSE fs

\* A mutant of Descend: the container made for a pending key is not stored under the key.
Descend_detached(fs, hp, indent, stripped, raw) ==
    LET frame == fs[Len(fs)]
        c     == frame.container
        new   == Len(hp) + 1
    IN
    IF indent <= frame.indent THEN Step(fs, hp, NoError)
    ELSE IF BadJump(indent, frame.indent) THEN Step(fs, hp, Err("InvalidIndentJump", raw))
    ELSE IF IsDict(hp, c) THEN
        IF ~frame.has_key THEN Step(fs, hp, Err("MissingNestedKey", raw))
        ELSE IF SlotIsPending(hp[c.n], frame.last_key) THEN
            LET fresh == FreshContainer(stripped)
                hp1   == Append(hp, fresh)
            IN Step(Append(fs, Frame(indent, Ref(new))), hp1, NoError)
        ELSE IF ~DictHas(hp[c.n], frame.last_key) THEN Step(fs, hp, Err("KeyError", <<>>))
        ELSE Step(Append(fs, Frame(indent, DictGet(hp[c.n], frame.last_key))), hp, NoError)
    ELSE IF IsList(hp, c) THEN
        IF hp[c.n].vals = <<>> THEN Step(fs, hp, Err("EmptySequenceExtend", raw))
        ELSE LET last == hp[c.n].vals[Len(hp[c.n].vals)]
             IN IF last = PENDING
                THEN Step(Append(fs, Frame(indent, Ref(new))),
                          Append([hp EXCEPT ![c.n].vals[Len(hp[c.n].vals)] = Ref(new)], NewDict),
                          NoError)
                ELSE Step(Append(fs, Frame(indent, last)), hp, NoError)
    ELSE Step(fs, hp, Err("UnsupportedContainerForNesting", raw))

\* The descent into the container of a line one level deeper than the top frame.
Descend(fs, hp, indent, stripped, raw) ==
    LET frame == fs[Len(fs)]
        c     == frame.container
        new   == Len(hp) + 1
    IN
    IF indent <= frame.indent THEN Step(fs, hp, NoError)
    ELSE IF BadJump(indent, frame.indent) THEN Step(fs, hp, Err("InvalidIndentJump", raw))
    ELSE IF IsDict(hp, c) THEN
        IF ~frame.has_key THEN Step(fs, hp, Err("MissingNestedKey", raw))
        ELSE IF SlotIsPending(hp[c.n], frame.last_key) THEN
            LET fresh == FreshContainer(stripped)
                hp1   == Append([hp EXCEPT ![c.n] = DictSet(@, frame.last_key, Ref(new))], fresh)
            IN Step(Append(fs, Frame(indent, Ref(new))), hp1, NoError)
        ELSE IF ~DictHas(hp[c.n], frame.last_key) THEN Step(fs, hp, Err("KeyError", <<>>))
        ELSE Step(Append(fs, Frame(indent, DictGet(hp[c.n], frame.last_key))), hp, NoError)
    ELSE IF IsList(hp, c) THEN
        IF hp[c.n].vals = <<>> THEN Step(fs, hp, Err("EmptySequenceExtend", raw))
        ELSE LET last == hp[c.n].vals[Len(hp[c.n].vals)]
             IN IF last = PENDING
                THEN Step(Append(fs, Frame(indent, Ref(new))),
                          Append([hp EXCEPT ![c.n].vals[Len(hp[c.n].vals)] = Ref(new)], NewDict),
                          NoError)
                ELSE Step(Append(fs, Frame(indent, last)), hp, NoError)
    ELSE Step(fs, hp, Err("UnsupportedContainerForNesting", raw))

\* A mutant of HandleItem: a scalar item is not appended to its list.
HandleItem_drops_scalar(fs, hp, stripped, raw) ==
    LET top       == Len(fs)
        frame     == fs[top]
        c         == frame.container
        item_text == Strip(From(stripped, 3))
        new       == Len(hp) + 1
        \* container[frame.last_key] = [] for a pending slot of a dict frame
        resolve   == IsDict(hp, c) /\ frame.has_key /\ SlotIsPending(hp[c.n], frame.last_key)
        hp1       == IF resolve
                     THEN Append([hp EXCEPT ![c.n] = DictSet(@, frame.last_key, Ref(new))], NewList)
                     ELSE hp
        new1      == Len(hp1) + 1
        \* container = container[frame.last_key] for a dict frame, frame.container otherwise
        target    == IF IsDict(hp, c) THEN DictGet(hp1[c.n], frame.last_key) ELSE c
    IN
    IF IsDict(hp, c) /\ ~frame.has_key THEN Step(fs, hp, Err("ListItemWithoutKey", raw))
    ELSE IF IsDict(hp, c) /\ ~DictHas(hp[c.n], frame.last_key) THEN Step(fs, hp, Err("KeyError", <<>>))
    ELSE IF ~IsList(hp1, target) THEN Step(fs, hp1, Err("ExpectedList", raw))
    ELSE IF item_text = <<>> THEN
        Step(fs, [hp1 EXCEPT ![target.n] = ListAppend(@, PENDING)], NoError)
    ELSE IF Contains(item_text, ":") THEN
        LET key   == Strip(SplitHead(item_text, ":"))
            value == Strip(SplitRest(item_text, ":"))
            v     == IF value = <<>> THEN PENDING ELSE parse_value(value)
            item  == DictSet(NewDict, key, v)
        IN Step([fs EXCEPT ![top].has_key = TRUE, ![top].last_key = key],
                Append([hp1 EXCEPT ![target.n] = ListAppend(@, Ref(new1))], item),
                NoError)
    ELSE Step(fs, hp1, NoError)

\* A sequence item line: stripped starts with "- ".
HandleItem(fs, hp, stripped, raw) ==
    LET top       == Len(fs)
        frame     == fs[top]
        c         == frame.container
        item_text == Strip(From(stripped, 3))
        new       == Len(hp) + 1
        \* container[frame.last_key] = [] for a pending slot of a dict frame
        resolve   == IsDict(hp, c) /\ frame.has_key /\ SlotIsPending(hp[c.n], frame.last_key)
        hp1       == IF resolve
                     THEN Append([hp EXCEPT ![c.n] = DictSet(@, frame.last_key, Ref(new))], NewList)
                     ELSE hp
        new1      == Len(hp1) + 1
        \* container = container[frame.last_key] for a dict frame, frame.container otherwise
        target    == IF IsDict(hp, c) THEN DictGet(hp1[c.n], frame.last_key) ELSE c
    IN
    IF IsDict(hp, c) /\ ~frame.has_key THEN Step(fs, hp, Err("ListItemWithoutKey", raw))
    ELSE IF IsDict(hp, c) /\ ~DictHas(hp[c.n], frame.last_key) THEN Step(fs, hp, Err("KeyError", <<>>))
    ELSE IF ~IsList(hp1, target) THEN Step(fs, hp1, Err("ExpectedList", raw))
    ELSE IF item_text = <<>> THEN
        Step(fs, [hp1 EXCEPT ![target.n] = ListAppend(@, PENDING)], NoError)
    ELSE IF Contains(item_text, ":") THEN
        LET key   == Strip(SplitHead(item_text, ":"))
            value == Strip(SplitRest(item_text, ":"))
            v     == IF value = <<>> THEN PENDING ELSE parse_value(value)
            item  == DictSet(NewDict, key, v)
        IN Step([fs EXCEPT ![top].has_key = TRUE, ![top].last_key = key],
                Append([hp1 EXCEPT ![target.n] = ListAppend(@, Ref(new1))], item),
                NoError)
    ELSE Step(fs, [hp1 EXCEPT ![target.n] = ListAppend(@, parse_value(item_text))], NoError)

\* A mutant of HandleKey: a key written to a list turns the list into a mapping.
HandleKey_coerces(fs, hp, stripped, raw) ==
    LET top   == Len(fs)
        c     == fs[top].container
        key   == Strip(SplitHead(stripped, ":"))
        value == Strip(SplitRest(stripped, ":"))
        v     == IF value = <<>> THEN PENDING ELSE parse_value(value)
    IN
    IF ~Contains(stripped, ":") THEN Step(fs, hp, Err("MissingSeparator", raw))
    ELSE IF ~IsRef(c) THEN Step(fs, hp, Err("TypeError", <<>>))
    ELSE Step([fs EXCEPT ![top].has_key = TRUE, ![top].last_key = key],
              [hp EXCEPT ![c.n] = DictSet(IF @.kind = "list" THEN NewDict ELSE @, key, v)],
              NoError)

\* A `key: value` or bare `key:` line.
HandleKey(fs, hp, stripped, raw) ==
    LET top   == Len(fs)
        frame == fs[top]
        c     == frame.container
        key   == Strip(SplitHead(stripped, ":"))
        value == Strip(SplitRest(stripped, ":"))
        v     == IF value = <<>> THEN PENDING ELSE parse_value(value)
    IN
    IF ~Contains(stripped, ":") THEN Step(fs, hp, Err("MissingSeparator", raw))
    ELSE IF ~IsDict(hp, c) THEN Step(fs, hp, Err("TypeError", <<>>))
    ELSE Step([fs EXCEPT ![top].has_key = TRUE, ![top].last_key = key],
              [hp EXCEPT ![c.n] = DictSet(@, key, v)],
              NoError)

\* A mutant of HandleContent: a line that arrives at a frame of a scalar is passed over.
HandleContent_passes_scalar(fs, hp, stripped, raw) ==
    IF ~IsRef(fs[Len(fs)].container) THEN Step(fs, hp, NoError)
    ELSE IF IsItemLine(stripped) THEN HandleItem(fs, hp, stripped, raw)
    ELSE HandleKey(fs, hp, stripped, raw)

\* The content of a line, handled in the frame the line arrived at.
HandleContent(fs, hp, stripped, raw) ==
    IF IsItemLine(stripped) THEN HandleItem(fs, hp, stripped, raw)
    ELSE HandleKey(fs, hp, stripped, raw)

\* A mutant of ProcessLine: the frames are popped before the indent is checked.
ProcessLine_pops_first(fs, hp, raw) ==
    LET line     == StripComment(raw)
        indent   == IndentOf(line)
        stripped == Strip(line)
        popped   == PopFrames(fs, indent)
    IN
    IF popped = <<>> THEN Step(popped, hp, Err("BrokenIndentContext", <<>>))
    ELSE IF OddIndent(indent) THEN Step(popped, hp, Err("OddIndentation", raw))
    ELSE LET d == Descend(popped, hp, indent, stripped, raw)
         IN IF d.err # NoError THEN d
            ELSE HandleContent(d.frames, d.heap, stripped, raw)

\* One pass of the loop body over a non-blank line.
ProcessLine(fs, hp, raw) ==
    LET line     == StripComment(raw)
        indent   == IndentOf(line)
        stripped == Strip(line)
        popped   == PopFrames(fs, indent)
    IN
    IF OddIndent(indent) THEN Step(fs, hp, Err("OddIndentation", raw))
    ELSE IF popped = <<>> THEN Step(popped, hp, Err("BrokenIndentContext", <<>>))
    ELSE LET d == Descend(popped, hp, indent, stripped, raw)
         IN IF d.err # NoError THEN d
            ELSE HandleContent(d.frames, d.heap, stripped, raw)

(***************************************************************************)
(* finalize, and the value parse_yaml returns: a tree of nodes.  A node    *)
(* has the four fields of a value and, for a dict or a list, its keys and  *)
(* its children.                                                           *)
(***************************************************************************)
Node(t, s, n, d, keys, vals) == [t |-> t, s |-> s, n |-> n, d |-> d, keys |-> keys, vals |-> vals]

Leaf(v) == Node(v.t, v.s, v.n, v.d, <<>>, <<>>)

\* {}
EmptyMapping == Node("dict", <<>>, 0, 0, <<>>, <<>>)

\* No value: parse_yaml has not returned.
Unset == Node("unset", <<>>, 0, 0, <<>>, <<>>)

RECURSIVE finalize_skips_lists(_, _)
\* A mutant of finalize: the items of a list are not finalized.
finalize_skips_lists(hp, obj) ==
    IF obj = PENDING THEN EmptyMapping
    ELSE IF IsDict(hp, obj)
         THEN Node("dict", <<>>, 0, 0, hp[obj.n].keys,
                   [i \in 1..Len(hp[obj.n].vals) |-> finalize_skips_lists(hp, hp[obj.n].vals[i])])
    ELSE IF IsList(hp, obj)
         THEN Node("list", <<>>, 0, 0, <<>>,
                   [i \in 1..Len(hp[obj.n].vals) |->
                       IF IsRef(hp[obj.n].vals[i])
                       THEN Node(hp[hp[obj.n].vals[i].n].kind, <<>>, 0, 0, hp[hp[obj.n].vals[i].n].keys,
                                 [j \in 1..Len(hp[hp[obj.n].vals[i].n].vals) |->
                                     Leaf(hp[hp[obj.n].vals[i].n].vals[j])])
                       ELSE Leaf(hp[obj.n].vals[i])])
    ELSE Leaf(obj)

RECURSIVE finalize(_, _)
\* finalize(obj), for the value obj under heap hp
finalize(hp, obj) ==
    IF obj = PENDING THEN EmptyMapping
    ELSE IF IsDict(hp, obj)
         THEN Node("dict", <<>>, 0, 0, hp[obj.n].keys,
                   [i \in 1..Len(hp[obj.n].vals) |-> finalize(hp, hp[obj.n].vals[i])])
    ELSE IF IsList(hp, obj)
         THEN Node("list", <<>>, 0, 0, <<>>,
                   [i \in 1..Len(hp[obj.n].vals) |-> finalize(hp, hp[obj.n].vals[i])])
    ELSE Leaf(obj)

(***************************************************************************)
(* The texts parsed: every line is some leading spaces and a body.         *)
(***************************************************************************)
Bodies ==
    { <<>>,                                   \* an empty or whitespace-only line
      <<"#", "c">>,                           \* a comment-only line
      <<"a", ":">>,                           \* a bare key
      <<"a", ":", " ", "1">>,                 \* key: value
      <<"b", ":", " ", "x">>,
      <<"a", ":", " ", "\"", "#", "\"">>,     \* a quoted value holding a #
      <<"-", " ", "1">>,                      \* a scalar item
      <<"-", " ", "b", ":", " ", "1">>,       \* an item with a key and a value
      <<"-", " ", "a", ":">>,                 \* an item with a bare key
      <<"-">>,                                \* an item marker alone
      <<"-", " ">>,                           \* an item marker with nothing after it
      <<"x">> }                               \* neither an item nor a key

Lines == {Spaces(n) \o b : n \in 0..MaxIndent, b \in Bodies}

(***************************************************************************)
(* parse_yaml as a state machine: one step per line of the text, then the  *)
(* return of finalize(root).                                               *)
(***************************************************************************)
ParserInit ==
    /\ frames = <<Frame(0, Ref(1))>>
    /\ heap = <<NewDict>>
    /\ raw_line = <<>>
    /\ status = "running"
    /\ error = NoError
    /\ result = Unset
    /\ nlines = 0

\* set_config_value is not called.
CfgOff ==
    /\ cfg_file = <<>>
    /\ cfg_key_path = <<>>
    /\ cfg_value = <<>>
    /\ cfg_lines = <<>>
    /\ cfg_keys = <<>>
    /\ cfg_indent = 0
    /\ cfg_idx = 0
    /\ cfg_found = FALSE
    /\ cfg_pc = "off"

\* parse_value is not called.
ValueOff ==
    /\ pv_raw = <<>>
    /\ pv_out = NoneVal
    /\ pv_pc = "off"

\* normalize_device is not called.
DeviceOff ==
    /\ nd_config = [has_devices |-> FALSE, devices |-> <<>>, default_device |-> NoneVal]
    /\ nd_hint = NoneVal
    /\ nd_out = [kind |-> "none", index |-> 0]
    /\ nd_pc = "off"

\* alerts_for_reading and print_alerts are not called.
AlertsOff ==
    /\ al_value = NoneVal
    /\ al_rules = <<NoneVal, NoneVal>>
    /\ al_alerts = <<>>
    /\ al_code = 0
    /\ al_pc = "off"

Init == ParserInit /\ CfgOff /\ ValueOff /\ DeviceOff /\ AlertsOff

\* A mutant of ReadLine: a line that raises is skipped and the loop goes on.
ReadLine_skips_bad_line ==
    /\ status = "running"
    /\ nlines < MaxLines
    /\ \E raw \in Lines :
        /\ raw_line' = raw
        /\ nlines' = nlines + 1
        /\ IF IsBlank(StripComment(raw)) \/ ProcessLine(frames, heap, raw).err # NoError
           THEN UNCHANGED <<frames, heap, status, error>>
           ELSE LET r == ProcessLine(frames, heap, raw)
                IN /\ frames' = r.frames
                   /\ heap' = r.heap
                   /\ error' = r.err
                   /\ status' = "running"
    /\ UNCHANGED <<result, cvars, ovars>>

\* for raw_line in lines: the loop body, for the next line of the text
ReadLine ==
    /\ status = "running"
    /\ nlines < MaxLines
    /\ \E raw \in Lines :
        /\ raw_line' = raw
        /\ nlines' = nlines + 1
        /\ IF IsBlank(StripComment(raw))
           THEN UNCHANGED <<frames, heap, status, error>>
           ELSE LET r == ProcessLine(frames, heap, raw)
                IN /\ frames' = r.frames
                   /\ heap' = r.heap
                   /\ error' = r.err
                   /\ status' = IF r.err = NoError THEN "running" ELSE "error"
    /\ UNCHANGED <<result, cvars, ovars>>

\* return finalize(root), once the text is read to its end
Return ==
    /\ status = "running"
    /\ result' = finalize(heap, Ref(1))
    /\ status' = "done"
    /\ UNCHANGED <<frames, heap, raw_line, error, nlines, cvars, ovars>>

Next == ReadLine \/ Return

Spec == Init /\ [][Next]_vars

(***************************************************************************)
(* parse_yaml as a function of the lines of a text, for the callers that   *)
(* read a whole file: the loop over text.splitlines(), then finalize.      *)
(***************************************************************************)
\* The lines of text.splitlines(), for a text given as lines that end in "\n".
SplitLines(file) ==
    [i \in 1..Len(file) |->
        IF EndsWith(file[i], <<"\n">>) THEN SubSeq(file[i], 1, Len(file[i]) - 1) ELSE file[i]]

RECURSIVE ParseFrom(_, _, _)
\* The loop of parse_yaml over the lines left, from the frames fs and the heap hp.
ParseFrom(fs, hp, lines) ==
    IF lines = <<>> THEN [ok |-> TRUE, tree |-> finalize(hp, Ref(1))]
    ELSE IF IsBlank(StripComment(Head(lines))) THEN ParseFrom(fs, hp, Tail(lines))
    ELSE LET r == ProcessLine(fs, hp, Head(lines))
         IN IF r.err # NoError THEN [ok |-> FALSE, tree |-> Unset]
            ELSE ParseFrom(r.frames, r.heap, Tail(lines))

\* parse_yaml(text): the tree returned, or ok FALSE when an exception escapes.
parse_yaml(file) == ParseFrom(<<Frame(0, Ref(1))>>, <<NewDict>>, SplitLines(file))

(***************************************************************************)
(* set_config_value: the files patched, and the call as a state machine:   *)
(* one step per pass of its while loop, then the raise or the write.       *)
(***************************************************************************)
CfgBodies ==
    { <<"a", ":">>,
      <<"a", ":", " ", "1">>,
      <<"b", ":", " ", "1">>,
      <<"#", " ", "a", ":">> }

CfgIndents == {0, 2}

CfgLines == {Spaces(n) \o b \o <<"\n">> : n \in CfgIndents, b \in CfgBodies}

CfgFiles == UNION {[1..n -> CfgLines] : n \in 1..MaxCfgLines}

CfgKeyPaths == { <<"a">>, <<"b">>, <<"a", ".", "b">>, <<"a", ".", "a">> }

CfgValues == { <<"2">> }

RECURSIVE SplitAll(_, _)
\* s.split(c)
SplitAll(s, c) ==
    IF Contains(s, c) THEN <<SplitHead(s, c)>> \o SplitAll(SplitRest(s, c), c) ELSE <<s>>

\* The line a found key is rewritten to: f"{key}: {value}\n"
Rewritten(line, key, value) == key \o <<":", " ">> \o value \o <<"\n">>

CfgInit ==
    /\ ParserInit
    /\ ValueOff /\ DeviceOff /\ AlertsOff
    /\ cfg_file \in CfgFiles
    /\ cfg_key_path \in CfgKeyPaths
    /\ cfg_value \in CfgValues
    /\ cfg_lines = cfg_file
    /\ cfg_keys = SplitAll(cfg_key_path, ".")
    /\ cfg_indent = 0
    /\ cfg_idx = 0
    /\ cfg_found = FALSE
    /\ cfg_pc = "loop"

\* while idx < len(lines): one pass of the loop body
CfgLoop ==
    /\ cfg_pc = "loop"
    /\ ~cfg_found
    /\ cfg_idx < Len(cfg_lines)
    /\ LET line           == cfg_lines[cfg_idx + 1]
           stripped       == Strip(line)
           current_indent == LeadingSpaces(line)
           key            == SplitHead(stripped, ":")
       IN IF stripped = <<>> \/ StartsWith(stripped, <<"#">>)
          THEN /\ cfg_idx' = cfg_idx + 1
               /\ UNCHANGED <<cfg_lines, cfg_keys, cfg_indent, cfg_found>>
          ELSE IF current_indent = cfg_indent /\ key = cfg_keys[1]
          THEN IF Len(cfg_keys) = 1
               THEN /\ cfg_lines' = [cfg_lines EXCEPT ![cfg_idx + 1] = Rewritten(line, key, cfg_value)]
                    /\ cfg_found' = TRUE
                    /\ UNCHANGED <<cfg_idx, cfg_keys, cfg_indent>>
               ELSE /\ cfg_indent' = cfg_indent + 2
                    /\ cfg_keys' = Tail(cfg_keys)
                    /\ cfg_idx' = cfg_idx + 1
                    /\ UNCHANGED <<cfg_lines, cfg_found>>
          ELSE /\ cfg_idx' = cfg_idx + 1
               /\ UNCHANGED <<cfg_lines, cfg_keys, cfg_indent, cfg_found>>
    /\ UNCHANGED <<cfg_file, cfg_key_path, cfg_value, cfg_pc, pvars, ovars>>

\* A mutant of CfgRaise: the file is opened for writing before the raise.
CfgRaise_truncates ==
    /\ cfg_pc = "loop"
    /\ cfg_idx >= Len(cfg_lines)
    /\ ~cfg_found
    /\ cfg_file' = <<>>
    /\ cfg_pc' = "raised"
    /\ UNCHANGED <<cfg_key_path, cfg_value, cfg_lines, cfg_keys, cfg_indent, cfg_idx,
                   cfg_found, pvars, ovars>>

\* if not found: raise ValueError("Key path not found in config. Edit manually.")
CfgRaise ==
    /\ cfg_pc = "loop"
    /\ cfg_idx >= Len(cfg_lines)
    /\ ~cfg_found
    /\ cfg_pc' = "raised"
    /\ UNCHANGED <<cfg_file, cfg_key_path, cfg_value, cfg_lines, cfg_keys, cfg_indent, cfg_idx,
                   cfg_found, pvars, ovars>>

\* handle.writelines(lines)
CfgWrite ==
    /\ cfg_pc = "loop"
    /\ cfg_found
    /\ cfg_file' = cfg_lines
    /\ cfg_pc' = "written"
    /\ UNCHANGED <<cfg_key_path, cfg_value, cfg_lines, cfg_keys, cfg_indent, cfg_idx,
                   cfg_found, pvars, ovars>>

CfgNext == CfgLoop \/ CfgRaise \/ CfgWrite

SpecCfg == CfgInit /\ [][CfgNext]_vars

(***************************************************************************)
(* parse_value as a call of its own: the tokens lexed, and the call.       *)
(***************************************************************************)
\* The longest token made of TokenChars, in characters.
MaxTokenLen == 3

TokenChars == {"\"", "'", "1", ".", "-", "x"}

\* Tokens that spell a keyword, bare and in quotes.
KeywordTokens ==
    { <<"t", "r", "u", "e">>, <<"T", "r", "u", "e">>, <<"F", "A", "L", "S", "E">>,
      <<"n", "u", "l", "l">>, <<"N", "o", "n", "e">>,
      <<"\"", "t", "r", "u", "e", "\"">>, <<"'", "n", "u", "l", "l", "'">>,
      <<"1", "e", "1">>, <<"1", "_", "1">>, <<"+", "1">>, <<"1", ".", "e", "1">> }

\* The trimmed, non-empty tokens handed to parse_value.
Tokens == UNION {[1..n -> TokenChars] : n \in 1..MaxTokenLen} \cup KeywordTokens

ValueInit ==
    /\ ParserInit /\ CfgOff /\ DeviceOff /\ AlertsOff
    /\ pv_raw \in Tokens
    /\ pv_out = NoneVal
    /\ pv_pc = "called"

\* return ... of parse_value(raw)
ParseValue ==
    /\ pv_pc = "called"
    /\ pv_out' = parse_value(pv_raw)
    /\ pv_pc' = "returned"
    /\ UNCHANGED <<pv_raw, pvars, cvars, dvars, avars>>

ValueNext == ParseValue

SpecValue == ValueInit /\ [][ValueNext]_vars

(***************************************************************************)
(* normalize_device: the configurations resolved, and the call.  A config  *)
(* has the key `devices` or not; a device is a mapping whose `name` and    *)
(* `hostname` are strings or missing (None, as dict.get returns).          *)
(***************************************************************************)
\* The longest list of devices.
MaxDevices == 2

DeviceNames == {NoneVal, StrVal(<<"a">>), StrVal(<<"b">>)}

Devices == [name : DeviceNames, hostname : DeviceNames]

Configs ==
    [has_devices : {TRUE}, devices : UNION {[1..n -> Devices] : n \in 0..MaxDevices},
     default_device : {NoneVal, StrVal(<<"a">>), StrVal(<<"c">>)}]
    \cup [has_devices : {FALSE}, devices : {<<>>},
          default_device : {NoneVal, StrVal(<<"a">>), StrVal(<<"c">>)}]

Hints == {NoneVal, StrVal(<<>>), StrVal(<<"a">>), StrVal(<<"b">>), StrVal(<<"c">>)}

\* bool(v): the truth value of a Python value
Truthy(v) ==
    CASE v.t = "none" -> FALSE
      [] v.t = "str" -> v.s # <<>>
      [] v.t \in {"int", "bool", "float"} -> v.n # 0
      [] OTHER -> TRUE

\* What a call of normalize_device leaves: kind "device" and the place of the device
\* returned in the list, or the exception raised.
Resolved(kind, index) == [kind |-> kind, index |-> index]

\* The first of the places in S: where a `for` loop over the list returns.
FirstIndex(S) == CHOOSE i \in S : \A j \in S : i <= j

\* A mutant of normalize_device: a hint is compared with the names of the devices only.
normalize_device_names_only(config, device_hint) ==
    LET devices == IF config.has_devices THEN config.devices ELSE <<>>
        ByHint(d) == device_hint = d.name
        ByDefault(d) == d.name = config.default_device
    IN IF devices = <<>> THEN Resolved("NoDevices", 0)
       ELSE IF Truthy(device_hint)
       THEN IF \E i \in 1..Len(devices) : ByHint(devices[i])
            THEN Resolved("device", FirstIndex({i \in 1..Len(devices) : ByHint(devices[i])}))
            ELSE Resolved("DeviceNotFound", 0)
       ELSE IF Truthy(config.default_device) /\ \E i \in 1..Len(devices) : ByDefault(devices[i])
       THEN Resolved("device", FirstIndex({i \in 1..Len(devices) : ByDefault(devices[i])}))
       ELSE Resolved("device", 1)

normalize_device(config, device_hint) ==
    LET \* devices = config.get("devices") or []
        devices == IF config.has_devices THEN config.devices ELSE <<>>
        \* device_hint in (device.get("name"), device.get("hostname"))
        ByHint(d) == device_hint = d.name \/ device_hint = d.hostname
        \* device.get("name") == default_name
        ByDefault(d) == d.name = config.default_device
    IN IF devices = <<>> THEN Resolved("NoDevices", 0)
       ELSE IF Truthy(device_hint)
       THEN IF \E i \in 1..Len(devices) : ByHint(devices[i])
            THEN Resolved("device", FirstIndex({i \in 1..Len(devices) : ByHint(devices[i])}))
            ELSE Resolved("DeviceNotFound", 0)
       ELSE IF Truthy(config.default_device) /\ \E i \in 1..Len(devices) : ByDefault(devices[i])
       THEN Resolved("device", FirstIndex({i \in 1..Len(devices) : ByDefault(devices[i])}))
       ELSE Resolved("device", 1)

DeviceInit ==
    /\ ParserInit /\ CfgOff /\ ValueOff /\ AlertsOff
    /\ nd_config \in Configs
    /\ nd_hint \in Hints
    /\ nd_out = Resolved("none", 0)
    /\ nd_pc = "called"

\* The call normalize_device(config, device_hint): it returns a device or raises.
NormalizeDevice ==
    /\ nd_pc = "called"
    /\ nd_out' = normalize_device(nd_config, nd_hint)
    /\ nd_pc' = IF normalize_device(nd_config, nd_hint).kind = "device" THEN "returned" ELSE "raised"
    /\ UNCHANGED <<nd_config, nd_hint, pvars, cvars, lvars, avars>>

DeviceNext == NormalizeDevice

SpecDevice == DeviceInit /\ [][DeviceNext]_vars

(***************************************************************************)
(* alerts_for_reading and print_alerts.  The reading `data` and the        *)
(* `thresholds` are arguments that are only read, each key once, so the    *)
(* value of a key is chosen at the step that reads it.  A missing key and  *)
(* a missing bound are None; readings and bounds are whole numbers.        *)
(***************************************************************************)
\* The largest reading and the largest bound.
MaxReading == 2

Readings == {NoneVal} \cup {IntVal(n) : n \in 0..MaxReading}

RuleBounds == {NoneVal} \cup {IntVal(n) : n \in 1..MaxReading}

\* a or b
PyOr(a, b) == IF Truthy(a) THEN a ELSE b

RECURSIVE IntStr(_)
\* f"{n}", for a whole number n >= 0
IntStr(n) == IF n < 10 THEN <<Digits[n + 1]>> ELSE IntStr(n \div 10) \o <<Digits[(n % 10) + 1]>>

WARN == <<"W", "A", "R", "N">>

CRITICAL == <<"C", "R", "I", "T", "I", "C", "A", "L">>

LabelPM25 == <<"P", "M", "2", ".", "5">>

LabelCO2 == <<"C", "O", "2">>

LabelTemperature == <<"T", "e", "m", "p", "e", "r", "a", "t", "u", "r", "e">>

LabelHumidity == <<"H", "u", "m", "i", "d", "i", "t", "y">>

\* A mutant of check_level: the warn bound is tested before the critical bound.
check_level_warn_first(alerts, label, value, rules) ==
    LET warn     == rules[1]
        critical == rules[2]
    IN IF value = NoneVal THEN alerts
       ELSE IF warn # NoneVal /\ value.n >= warn.n
       THEN Append(alerts, WARN \o <<" ">> \o label \o <<":", " ">> \o IntStr(value.n))
       ELSE IF critical # NoneVal /\ value.n >= critical.n
       THEN Append(alerts, CRITICAL \o <<" ">> \o label \o <<":", " ">> \o IntStr(value.n))
       ELSE alerts

\* check_level(label, value, rules): the list alerts after it; rules is <<warn, critical>>
check_level(alerts, label, value, rules) ==
    LET warn     == rules[1]
        critical == rules[2]
    IN IF value = NoneVal THEN alerts
       ELSE IF critical # NoneVal /\ value.n >= critical.n
       THEN Append(alerts, CRITICAL \o <<" ">> \o label \o <<":", " ">> \o IntStr(value.n))
       ELSE IF warn # NoneVal /\ value.n >= warn.n
       THEN Append(alerts, WARN \o <<" ">> \o label \o <<":", " ">> \o IntStr(value.n))
       ELSE alerts

\* check_range(label, value, rules): the list alerts after it; rules is <<min, max>>
check_range(alerts, label, value, rules) ==
    LET min_v == rules[1]
        max_v == rules[2]
        low   == IF value # NoneVal /\ min_v # NoneVal /\ value.n < min_v.n
                 THEN <<WARN \o <<" ">> \o label \o <<" ", "l", "o", "w", ":", " ">> \o IntStr(value.n)>>
                 ELSE <<>>
        high  == IF value # NoneVal /\ max_v # NoneVal /\ value.n > max_v.n
                 THEN <<WARN \o <<" ">> \o label \o <<" ", "h", "i", "g", "h", ":", " ">> \o IntStr(value.n)>>
                 ELSE <<>>
    IN alerts \o low \o high

\* print_alerts(alerts): the severity returned
print_alerts(alerts) ==
    IF alerts = <<>> THEN 0
    ELSE IF \E i \in 1..Len(alerts) : StartsWith(alerts[i], CRITICAL) THEN 2
    ELSE 1

AlertsInit ==
    /\ ParserInit /\ CfgOff /\ ValueOff /\ DeviceOff
    /\ al_value = NoneVal
    /\ al_rules = <<NoneVal, NoneVal>>
    /\ al_alerts = <<>>
    /\ al_code = 0
    /\ al_pc = "pm25"

\* check_level("PM2.5", pm25, thresholds.get("pm25", {}))
CheckPm25 ==
    /\ al_pc = "pm25"
    /\ \E compensated \in Readings, pm02 \in Readings, warn \in RuleBounds, critical \in RuleBounds :
        /\ al_value' = PyOr(compensated, pm02)
        /\ al_rules' = <<warn, critical>>
        /\ al_alerts' = check_level(al_alerts, LabelPM25, PyOr(compensated, pm02), <<warn, critical>>)
    /\ al_pc' = "co2"
    /\ UNCHANGED <<al_code, pvars, cvars, lvars, dvars>>

\* check_level("CO2", co2, thresholds.get("co2", {}))
CheckCo2 ==
    /\ al_pc = "co2"
    /\ \E rco2 \in Readings, warn \in RuleBounds, critical \in RuleBounds :
        /\ al_value' = rco2
        /\ al_rules' = <<warn, critical>>
        /\ al_alerts' = check_level(al_alerts, LabelCO2, rco2, <<warn, critical>>)
    /\ al_pc' = "temp"
    /\ UNCHANGED <<al_code, pvars, cvars, lvars, dvars>>

\* check_range("Temperature", temp, thresholds.get("temp_c", {}))
CheckTemp ==
    /\ al_pc = "temp"
    /\ \E compensated \in Readings, atmp \in Readings, min_v \in RuleBounds, max_v \in RuleBounds :
        /\ al_value' = PyOr(compensated, atmp)
        /\ al_rules' = <<min_v, max_v>>
        /\ al_alerts' = check_range(al_alerts, LabelTemperature, PyOr(compensated, atmp), <<min_v, max_v>>)
    /\ al_pc' = "humid"
    /\ UNCHANGED <<al_code, pvars, cvars, lvars, dvars>>

\* check_range("Humidity", humid, thresholds.get("humidity", {})); return alerts
CheckHumid ==
    /\ al_pc = "humid"
    /\ \E compensated \in Readings, rhum \in Readings, min_v \in RuleBounds, max_v \in RuleBounds :
        /\ al_value' = PyOr(compensated, rhum)
        /\ al_rules' = <<min_v, max_v>>
        /\ al_alerts' = check_range(al_alerts, LabelHumidity, PyOr(compensated, rhum), <<min_v, max_v>>)
    /\ al_pc' = "print"
    /\ UNCHANGED <<al_code, pvars, cvars, lvars, dvars>>

\* code = print_alerts(alerts)
PrintAlerts ==
    /\ al_pc = "print"
    /\ al_code' = print_alerts(al_alerts)
    /\ al_pc' = "done"
    /\ UNCHANGED <<al_value, al_rules, al_alerts, pvars, cvars, lvars, dvars>>

AlertsNext == CheckPm25 \/ CheckCo2 \/ CheckTemp \/ CheckHumid \/ PrintAlerts

SpecAlerts == AlertsInit /\ [][AlertsNext]_vars

(***************************************************************************)
(* Notions the properties below are stated with.                           *)
(***************************************************************************)
\* The innermost open frame.
Top(fs) == fs[Len(fs)]

\* The step is a pass of the loop body over the line raw_line'.
LineRead == status = "running" /\ nlines' = nlines + 1

\* A line that holds only whitespace, or only whitespace and then a comment.
CommentOrWhitespaceOnly(raw) ==
    \A i \in 1..Len(raw) : (\A j \in 1..(i - 1) : raw[j] # "#") => (IsSpace(raw[i]) \/ raw[i] = "#")

\* The text of a line: the line without its comment and the whitespace around it.
TextOf(raw) == Strip(SplitHead(raw, "#"))

\* The number of leading spaces of a line.
SpacesBefore(raw) == Cardinality({i \in 1..Len(raw) : \A j \in 1..i : raw[j] = " "})

\* The frame a line of indent n arrives at, and the heap then: deeper frames popped
\* and, for a line one level deeper than the frame left on top, its container entered.
Arrival(fs, hp, raw) ==
    Descend(PopFrames(fs, SpacesBefore(raw)), hp, SpacesBefore(raw), TextOf(raw), raw)

\* The heap as a tree, Pending markers kept.
RECURSIVE RawTree(_, _)
RawTree(hp, v) ==
    IF IsRef(v)
    THEN Node(hp[v.n].kind, <<>>, 0, 0, hp[v.n].keys,
              [i \in 1..Len(hp[v.n].vals) |-> RawTree(hp, hp[v.n].vals[i])])
    ELSE Leaf(v)

RECURSIVE HasPending(_)
HasPending(tree) ==
    tree.t = "pending" \/ \E i \in 1..Len(tree.vals) : HasPending(tree.vals[i])

\* fin is raw with every Pending marker turned into an empty Mapping and nothing else changed.
RECURSIVE PendingEmptied(_, _)
PendingEmptied(raw, fin) ==
    IF raw.t = "pending" THEN fin = EmptyMapping
    ELSE /\ fin.t = raw.t /\ fin.s = raw.s /\ fin.n = raw.n /\ fin.d = raw.d
         /\ fin.keys = raw.keys
         /\ Len(fin.vals) = Len(raw.vals)
         /\ \A i \in 1..Len(raw.vals) : PendingEmptied(raw.vals[i], fin.vals[i])

(***************************************************************************)
(* C1.  The tree parse_yaml returns holds no Pending marker at any depth:  *)
(* every key or list item left Pending is an empty Mapping in it, nothing  *)
(* else differs from the tree built, and the root is a Mapping.            *)
(***************************************************************************)
C1_NoPendingAfterFinalize ==
    status = "done" =>
        /\ result.t = "dict"
        /\ ~HasPending(result)
        /\ PendingEmptied(RawTree(heap, Ref(1)), result)

\* A tree is returned that was built with a Pending key inside a list item.
C1_Witness ==
    /\ status = "done"
    /\ \E i \in 1..Len(heap) : \E j \in 1..Len(heap) :
        /\ heap[i].kind = "list"
        /\ \E m \in 1..Len(heap[i].vals) : heap[i].vals[m] = Ref(j)
        /\ \E m \in 1..Len(heap[j].vals) : heap[j].vals[m] = PENDING

(***************************************************************************)
(* C2.  A # inside a double-quoted scalar value is part of the value: a    *)
(* line key: "..#.." that is accepted leaves the key bound to the string   *)
(* between the quotes, # included.                                         *)
(***************************************************************************)
\* raw is key: "inner" with a # in inner, and no # or quote before the value.
C2_QuotedHashLine(raw) ==
    /\ Contains(raw, ":")
    /\ ~Contains(SplitHead(raw, ":"), "#")
    /\ ~Contains(SplitHead(raw, ":"), "\"")
    /\ ~StartsWith(Strip(raw), <<"-", " ">>)
    /\ LET v == Strip(SplitRest(raw, ":"))
       IN /\ Len(v) >= 3
          /\ v[1] = "\"" /\ v[Len(v)] = "\""
          /\ Contains(SubSeq(v, 2, Len(v) - 1), "#")
          /\ ~Contains(SubSeq(v, 2, Len(v) - 1), "\"")

C2_HashInQuotesKept ==
    (status = "running" /\ nlines > 0 /\ C2_QuotedHashLine(raw_line)) =>
        LET key == Strip(SplitHead(raw_line, ":"))
            v   == Strip(SplitRest(raw_line, ":"))
            c   == Top(frames).container
        IN /\ IsDict(heap, c)
           /\ DictHas(heap[c.n], key)
           /\ DictGet(heap[c.n], key) = StrVal(SubSeq(v, 2, Len(v) - 1))

(***************************************************************************)
(* C3.  A parse that fails, fails with one of the eight errors of the      *)
(* taxonomy, and the error carries the offending raw line.                 *)
(***************************************************************************)
Taxonomy ==
    { "OddIndentation", "BrokenIndentContext", "InvalidIndentJump", "MissingNestedKey",
      "UnsupportedContainerForNesting", "EmptySequenceExtend", "MissingSeparator",
      "ListItemWithoutKey" }

C3_OnlyTaxonomyErrors ==
    status = "error" => error.kind \in Taxonomy /\ error.line = raw_line

(***************************************************************************)
(* C4.  Mixed content is rejected.  A key line that arrives at a frame     *)
(* whose container is a Sequence, and an item line that arrives at a       *)
(* Mapping frame whose last_key slot holds a mapping or a scalar, make the *)
(* parse fail, and the container is left as it was.                        *)
(***************************************************************************)
C4_MixedContentRejected ==
    [][(/\ LineRead
        /\ ~CommentOrWhitespaceOnly(raw_line')
        /\ SpacesBefore(raw_line') % 2 = 0
        /\ Arrival(frames, heap, raw_line').err = NoError)
       => LET a   == Arrival(frames, heap, raw_line')
              f   == Top(a.frames)
              c   == f.container
              txt == TextOf(raw_line')
          IN /\ (~StartsWith(txt, <<"-", " ">>) /\ Contains(txt, ":") /\ IsList(a.heap, c))
                  => /\ status' = "error"
                     /\ heap'[c.n] = a.heap[c.n]
             /\ (/\ StartsWith(txt, <<"-", " ">>)
                 /\ IsDict(a.heap, c)
                 /\ f.has_key
                 /\ DictHas(a.heap[c.n], f.last_key)
                 /\ DictGet(a.heap[c.n], f.last_key) # PENDING
                 /\ ~IsList(a.heap, DictGet(a.heap[c.n], f.last_key)))
                  => /\ status' = "error"
                     /\ heap'[c.n] = a.heap[c.n]
      ]_vars

\* A key line was rejected at a frame whose container is a non-empty Sequence.
C4_Witness ==
    /\ status = "error"
    /\ ~StartsWith(TextOf(raw_line), <<"-", " ">>) /\ Contains(TextOf(raw_line), ":")
    /\ IsList(heap, Top(frames).container)
    /\ heap[Top(frames).container.n].vals # <<>>

(***************************************************************************)
(* C5.  A key left Pending by a bare `key:` line is resolved by the first  *)
(* non-blank line one level deeper alone: to a Sequence if that line       *)
(* begins with "- ", to a Mapping otherwise.  While the frame of that      *)
(* container stays open the key holds that container and its kind stays.   *)
(***************************************************************************)
C5_FirstChildDecidesKind ==
    /\ [][(/\ LineRead
           /\ ~CommentOrWhitespaceOnly(raw_line')
           /\ IsDict(heap, Top(frames).container)
           /\ Top(frames).has_key
           /\ SlotIsPending(heap[Top(frames).container.n], Top(frames).last_key)
           /\ SpacesBefore(raw_line') = Top(frames).indent + 2)
          => LET v == DictGet(heap'[Top(frames).container.n], Top(frames).last_key)
             IN /\ IsRef(v)
                /\ heap'[v.n].kind =
                      IF StartsWith(TextOf(raw_line'), <<"-", " ">>) THEN "list" ELSE "dict"
                /\ heap'[v.n].kind = "list" => heap'[v.n].vals # <<>>
         ]_vars
    /\ [][\A i \in 2..Len(frames) :
            (/\ i <= Len(frames')
             /\ frames'[i].container = frames[i].container
             /\ IsRef(frames[i].container)
             /\ IsDict(heap, frames[i - 1].container)
             /\ DictHas(heap[frames[i - 1].container.n], frames[i - 1].last_key)
             /\ DictGet(heap[frames[i - 1].container.n], frames[i - 1].last_key)
                  = frames[i].container)
            => /\ heap'[frames[i].container.n].kind = heap[frames[i].container.n].kind
               /\ DictGet(heap'[frames[i - 1].container.n], frames[i - 1].last_key)
                    = frames[i].container
         ]_vars

\* A bare key was resolved to a Sequence by its first child line, and a later line
\* extended that Sequence.
C5_Witness ==
    /\ status = "running"
    /\ Len(frames) = 2
    /\ IsList(heap, frames[2].container)
    /\ DictGet(heap[1], frames[1].last_key) = frames[2].container
    /\ Len(heap[frames[2].container.n].vals) >= 2

(***************************************************************************)
(* C6.  After an item line `- k: v` at indent n, a following `key: value`  *)
(* line at indent n + 2 adds its key to the mapping of that item, and a    *)
(* following "- " line at indent n appends a fresh item to the same        *)
(* sequence.  Stated for the line that follows the item line directly.     *)
(***************************************************************************)
\* raw is an item line `- k: v` with a value.
C6_ItemWithKeyAndValue(raw) ==
    /\ StartsWith(TextOf(raw), <<"-", " ">>)
    /\ Contains(TextOf(raw), ":")
    /\ Strip(SplitRest(TextOf(raw), ":")) # <<>>

\* raw is a `key: value` line with a value.
C6_KeyWithValue(raw) ==
    /\ ~StartsWith(TextOf(raw), <<"-", " ">>)
    /\ Contains(TextOf(raw), ":")
    /\ Strip(SplitRest(TextOf(raw), ":")) # <<>>

C6_ItemRecordsCollectKeys ==
    [][(LineRead /\ nlines > 0 /\ C6_ItemWithKeyAndValue(raw_line))
       => \* the mapping of the item is the object allocated last; seq is the sequence holding it
          LET item == Len(heap)
          IN /\ (C6_KeyWithValue(raw_line') /\ SpacesBefore(raw_line') = SpacesBefore(raw_line) + 2)
                  => /\ status' = "running"
                     /\ Len(heap') = Len(heap)
                     /\ heap'[item].kind = "dict"
                     /\ DictHas(heap'[item], Strip(SplitHead(TextOf(raw_line'), ":")))
             /\ (C6_ItemWithKeyAndValue(raw_line') /\ SpacesBefore(raw_line') = SpacesBefore(raw_line))
                  => /\ status' = "running"
                     /\ \E seq \in 1..Len(heap) :
                          /\ heap[seq].kind = "list"
                          /\ heap[seq].vals # <<>>
                          /\ heap[seq].vals[Len(heap[seq].vals)] = Ref(item)
                          /\ heap'[seq].vals = Append(heap[seq].vals, Ref(Len(heap')))
                          /\ Len(heap') = Len(heap) + 1
      ]_vars

(***************************************************************************)
(* C7.  A comment-only or whitespace-only line, wherever it stands in the  *)
(* text, leaves the parser as it was: the frames, the tree and the outcome *)
(* are those of the text without that line.                                *)
(***************************************************************************)
C7_BlankAndCommentLinesIgnored ==
    [][(LineRead /\ CommentOrWhitespaceOnly(raw_line'))
       => UNCHANGED <<frames, heap, status, error, result>>]_vars

\* A comment-only line was read between a bare key and what may follow it.
C7_Witness ==
    /\ status = "running"
    /\ Contains(raw_line, "#") /\ CommentOrWhitespaceOnly(raw_line)
    /\ Top(frames).has_key
    /\ SlotIsPending(heap[Top(frames).container.n], Top(frames).last_key)

(***************************************************************************)
(* C8.  A non-blank line with an odd number of leading spaces makes the    *)
(* parse fail with the odd-indentation error, with no frame popped or      *)
(* pushed and the tree as it was.                                          *)
(***************************************************************************)
C8_OddIndentRejectedFirst ==
    [][(/\ LineRead
        /\ ~CommentOrWhitespaceOnly(raw_line')
        /\ SpacesBefore(raw_line') % 2 = 1)
       => /\ status' = "error"
          /\ error' = Err("OddIndentation", raw_line')
          /\ frames' = frames
          /\ heap' = heap
      ]_vars

\* An odd indent was rejected under a deeper open frame, which is still on the stack.
C8_Witness ==
    /\ status = "error"
    /\ error.kind = "OddIndentation"
    /\ SpacesBefore(raw_line) < Top(frames).indent

(***************************************************************************)
(* C9.  As claimed: a line whose indent exceeds the indent of the top      *)
(* frame (deeper frames popped) by anything other than 2 fails with the    *)
(* invalid-indent-jump error, no frame pushed and nothing written.         *)
(***************************************************************************)
C9_AnyJumpIsInvalidIndentJump ==
    [][(/\ LineRead
        /\ ~CommentOrWhitespaceOnly(raw_line')
        /\ PopFrames(frames, SpacesBefore(raw_line')) # <<>>
        /\ SpacesBefore(raw_line') > Top(PopFrames(frames, SpacesBefore(raw_line'))).indent
        /\ SpacesBefore(raw_line') # Top(PopFrames(frames, SpacesBefore(raw_line'))).indent + 2)
       => /\ status' = "error"
          /\ error' = Err("InvalidIndentJump", raw_line')
          /\ Len(frames') <= Len(frames)
          /\ heap' = heap
      ]_vars

(***************************************************************************)
(* C9, amended.  A line whose indent is even and exceeds the indent of the *)
(* top frame (deeper frames popped) by anything other than 2 fails with    *)
(* the invalid-indent-jump error; no frame is pushed or popped and nothing *)
(* is written to the tree.                                                 *)
(***************************************************************************)
C9_EvenJumpIsInvalidIndentJump ==
    [][(/\ LineRead
        /\ ~CommentOrWhitespaceOnly(raw_line')
        /\ SpacesBefore(raw_line') % 2 = 0
        /\ PopFrames(frames, SpacesBefore(raw_line')) # <<>>
        /\ SpacesBefore(raw_line') > Top(PopFrames(frames, SpacesBefore(raw_line'))).indent
        /\ SpacesBefore(raw_line') # Top(PopFrames(frames, SpacesBefore(raw_line'))).indent + 2)
       => /\ status' = "error"
          /\ error' = Err("InvalidIndentJump", raw_line')
          /\ frames' = frames
          /\ heap' = heap
      ]_vars

\* A jump of two levels was rejected under a bare key that could have taken a child.
C9_Witness ==
    /\ status = "error"
    /\ error.kind = "InvalidIndentJump"
    /\ SpacesBefore(raw_line) = Top(frames).indent + 4
    /\ Top(frames).has_key

(***************************************************************************)
(* C10.  set_config_value rewrites one `key: value` line, the one at the   *)
(* end of the dotted key path; the rewritten line keeps the indentation of *)
(* its level and no other line changes, so that the file parses to the     *)
(* tree it parsed to before with the value at that path replaced.          *)
(***************************************************************************)
RECURSIVE SetAt(_, _, _)
\* The tree with the value at the path keys replaced by v.
SetAt(tree, keys, v) ==
    IF keys = <<>> THEN v
    ELSE IF tree.t = "dict" /\ \E i \in 1..Len(tree.keys) : tree.keys[i] = Head(keys)
    THEN [tree EXCEPT !.vals[CHOOSE i \in 1..Len(tree.keys) : tree.keys[i] = Head(keys)] =
              SetAt(@, Tail(keys), v)]
    ELSE tree

RECURSIVE CountKeys(_)
\* The number of keys in a tree, at every depth.
CountKeys(tree) ==
    IF tree.vals = <<>> THEN Len(tree.keys)
    ELSE Len(tree.keys) + CountKeys(Head(tree.vals))
           + CountKeys([tree EXCEPT !.keys = <<>>, !.vals = Tail(@)])

RECURSIVE ScalarAt(_, _)
\* The tree holds a scalar at the path keys.
ScalarAt(tree, keys) ==
    IF keys = <<>> THEN tree.t \notin {"dict", "list"}
    ELSE /\ tree.t = "dict"
         /\ \E i \in 1..Len(tree.keys) :
              tree.keys[i] = Head(keys) /\ ScalarAt(tree.vals[i], Tail(keys))

\* A file that parses, in which no line binds a key that a line before it bound, and
\* in which the path keys leads to a scalar.
C10_PatchableFile(file, keys) ==
    /\ parse_yaml(file).ok
    /\ CountKeys(parse_yaml(file).tree)
         = Cardinality({i \in 1..Len(file) : ~CommentOrWhitespaceOnly(file[i])})
    /\ ScalarAt(parse_yaml(file).tree, keys)

C10_OneLineRewrittenInPlace ==
    [][(/\ cfg_pc = "loop" /\ cfg_pc' = "written"
        /\ C10_PatchableFile(cfg_file, SplitAll(cfg_key_path, ".")))
       => LET keys == SplitAll(cfg_key_path, ".")
          IN /\ Len(cfg_file') = Len(cfg_file)
             /\ \E i \in 1..Len(cfg_file) :
                  /\ \A j \in 1..Len(cfg_file) : j # i => cfg_file'[j] = cfg_file[j]
                  /\ SpacesBefore(cfg_file[i]) = 2 * (Len(keys) - 1)
                  /\ SpacesBefore(cfg_file'[i]) = SpacesBefore(cfg_file[i])
                  /\ Strip(cfg_file'[i]) = keys[Len(keys)] \o <<":", " ">> \o cfg_value
             /\ parse_yaml(cfg_file').ok
             /\ parse_yaml(cfg_file').tree
                  = SetAt(parse_yaml(cfg_file).tree, keys, Leaf(parse_value(cfg_value)))
      ]_vars

(***************************************************************************)
(* C11.  Lines are processed in input order, one per step, and the first   *)
(* line that raises ends the parse: a line that cannot be processed in the *)
(* state it is read in leaves the parse failed with that line's error,     *)
(* nothing happens after a failure, and a failed parse returns no tree.    *)
(***************************************************************************)
C11_FirstErrorEndsTheParse ==
    /\ [](status = "error" => (error # NoError /\ result = Unset))
    /\ [](status = "done" => error = NoError)
    /\ [][/\ status # "error"
          /\ nlines' \in {nlines, nlines + 1}
          /\ (LineRead /\ ~CommentOrWhitespaceOnly(raw_line'))
               => LET r == ProcessLine(frames, heap, raw_line')
                  IN /\ (r.err # NoError) => (status' = "error" /\ error' = r.err)
                     /\ (r.err = NoError) => (status' = "running" /\ heap' = r.heap)
         ]_vars

\* The parse failed before the text was read to its end, with part of a tree built.
C11_Witness ==
    /\ status = "error"
    /\ nlines >= 2 /\ nlines < MaxLines
    /\ heap[1].keys # <<>>
    /\ result = Unset

(***************************************************************************)
(* C12.  parse_value applies its rules in strict precedence: a token in a  *)
(* pair of matching quotes is the String between the quotes; otherwise     *)
(* true/false in any case is a Boolean and null/none in any case is Null;  *)
(* otherwise a token without "." that parses as an integer is an Integer   *)
(* and a token with "." that parses as a float is a Float; every other     *)
(* token is the String of the token itself.                                *)
(***************************************************************************)
\* tok is wrapped in a pair of the quote character q: an opening and a closing quote.
C12_Wrapped(tok, q) == Len(tok) >= 2 /\ tok[1] = q /\ tok[Len(tok)] = q

\* The value the rules give tok.
C12_Claimed(tok) ==
    IF C12_Wrapped(tok, "\"") \/ C12_Wrapped(tok, "'") THEN StrVal(SubSeq(tok, 2, Len(tok) - 1))
    ELSE IF Lower(tok) = <<"t", "r", "u", "e">> THEN BoolVal(TRUE)
    ELSE IF Lower(tok) = <<"f", "a", "l", "s", "e">> THEN BoolVal(FALSE)
    ELSE IF Lower(tok) \in {<<"n", "u", "l", "l">>, <<"n", "o", "n", "e">>} THEN NoneVal
    ELSE IF ~Contains(tok, ".") /\ IsIntLiteral(tok) THEN IntVal(IntOf(tok))
    ELSE IF Contains(tok, ".") /\ IsFloatLiteral(tok) THEN FloatOf(tok)
    ELSE StrVal(tok)

C12_RulesInPrecedence ==
    pv_pc = "returned" => pv_out = C12_Claimed(pv_raw)

(***************************************************************************)
(* C13.  normalize_device fails when `devices` is absent or empty, and     *)
(* when a hint is given that is no device's name or hostname.  Otherwise   *)
(* with a hint it returns the first device whose name or hostname is the   *)
(* hint; without one it returns the first device whose name is             *)
(* default_device if there is one, and the first device if not.  A hint    *)
(* is given when it is a non-empty string.                                 *)
(***************************************************************************)
C13_HintGiven == nd_hint.t = "str" /\ nd_hint.s # <<>>

\* The devices at places before i.
C13_Before(i) == {nd_config.devices[j] : j \in 1..(i - 1)}

C13_DeviceResolution ==
    nd_pc \in {"returned", "raised"} =>
        LET ds == nd_config.devices
            Named(d) == d.name = nd_hint \/ d.hostname = nd_hint
            Default(d) == d.name = nd_config.default_device
        IN IF ~nd_config.has_devices \/ ds = <<>>
           THEN nd_pc = "raised" /\ nd_out.kind = "NoDevices"
           ELSE IF C13_HintGiven
           THEN IF \E i \in 1..Len(ds) : Named(ds[i])
                THEN /\ nd_pc = "returned"
                     /\ Named(ds[nd_out.index])
                     /\ \A d \in C13_Before(nd_out.index) : ~Named(d)
                ELSE nd_pc = "raised" /\ nd_out.kind = "DeviceNotFound"
           ELSE /\ nd_pc = "returned"
                /\ IF nd_config.default_device # NoneVal /\ \E i \in 1..Len(ds) : Default(ds[i])
                   THEN /\ Default(ds[nd_out.index])
                        /\ \A d \in C13_Before(nd_out.index) : ~Default(d)
                   ELSE nd_out.index = 1

\* A hint was resolved to the second device, by its hostname.
C13_Witness ==
    /\ nd_pc = "returned"
    /\ C13_HintGiven
    /\ nd_out.index = 2
    /\ nd_config.devices[2].hostname = nd_hint
    /\ nd_config.devices[2].name # nd_hint

(***************************************************************************)
(* C14.  Each level check (PM2.5, CO2) adds at most one alert: a CRITICAL  *)
(* one when the value is at or above the critical bound, else a WARN one   *)
(* when it is at or above the warn bound, else none.  Every alert begins   *)
(* with WARN or CRITICAL.  print_alerts returns 0 for no alerts, 2 when    *)
(* an alert begins with CRITICAL, and 1 otherwise.                         *)
(***************************************************************************)
\* The step is a level check, of the value al_value' against the rules al_rules'.
C14_LevelChecked == al_pc \in {"pm25", "co2"} /\ al_pc' # al_pc

\* The value v is at or above the bound b.
C14_Reaches(v, b) == v # NoneVal /\ b # NoneVal /\ v.n >= b.n

\* One alert that begins with severity was added to the list.
C14_Added(severity) ==
    /\ Len(al_alerts') = Len(al_alerts) + 1
    /\ SubSeq(al_alerts', 1, Len(al_alerts)) = al_alerts
    /\ SubSeq(al_alerts'[Len(al_alerts')], 1, Len(severity) + 1) = severity \o <<" ">>

C14_AlertLevelsAndExitCode ==
    /\ [][C14_LevelChecked =>
            IF C14_Reaches(al_value', al_rules'[2]) THEN C14_Added(CRITICAL)
            ELSE IF C14_Reaches(al_value', al_rules'[1]) THEN C14_Added(WARN)
            ELSE al_alerts' = al_alerts
         ]_vars
    /\ [](\A i \in 1..Len(al_alerts) :
            \/ SubSeq(al_alerts[i], 1, 4) = <<"W", "A", "R", "N">>
            \/ SubSeq(al_alerts[i], 1, 8) = <<"C", "R", "I", "T", "I", "C", "A", "L">>)
    /\ [](al_pc = "done" =>
            al_code = IF al_alerts = <<>> THEN 0
                      ELSE IF \E i \in 1..Len(al_alerts) : al_alerts[i][1] = "C" THEN 2
                      ELSE 1)

\* A value above both bounds, the critical bound the lower of the two, gave a CRITICAL
\* alert; a WARN alert stands beside it and print_alerts returned 2.
C14_Witness ==
    /\ al_pc = "done"
    /\ al_code = 2
    /\ Len(al_alerts) >= 2
    /\ al_alerts[1][1] = "C"
    /\ \E i \in 1..Len(al_alerts) : al_alerts[i][1] = "W"

(***************************************************************************)
(* C15.  After an item line `- key:` with no value, a `k: v` line one      *)
(* level deeper attaches under key: the parse goes on, key is still the    *)
(* only key of the item mapping, and key holds a Mapping that binds k.     *)
(* Stated for the line that follows the item line directly, and for an     *)
(* item line handled in the frame of its Sequence.                         *)
(***************************************************************************)
\* raw is an item line `- key:` with no value.
C15_ItemWithBareKey(raw) ==
    /\ StartsWith(TextOf(raw), <<"-", " ">>)
    /\ Contains(TextOf(raw), ":")
    /\ Strip(SplitRest(TextOf(raw), ":")) = <<>>

\* The key of an item line `- key:`.
C15_ItemKey(raw) == Strip(SplitHead(From(TextOf(raw), 3), ":"))

C15_ChildAttachesUnderItemKey ==
    [][(/\ LineRead /\ nlines > 0
        /\ C15_ItemWithBareKey(raw_line)
        /\ IsList(heap, Top(frames).container)
        /\ C6_KeyWithValue(raw_line')
        /\ SpacesBefore(raw_line') = SpacesBefore(raw_line) + 2)
       => \* the mapping of the item is the object allocated last
          LET item == Len(heap)
              key  == C15_ItemKey(raw_line)
          IN /\ status' = "running"
             /\ heap'[item].keys = <<key>>
             /\ IsDict(heap', DictGet(heap'[item], key))
             /\ DictHas(heap'[DictGet(heap'[item], key).n], Strip(SplitHead(TextOf(raw_line'), ":")))
      ]_vars

(***************************************************************************)
(* C16.  At every line boundary, the last_key of a frame whose container   *)
(* is a Mapping is unset or a key of that Mapping; and an item `- k: v`    *)
(* that follows an item `- k: v` at the same indent, both handled in the   *)
(* Mapping frame of their parent key, is appended to the parent key's      *)
(* Sequence.                                                               *)
(***************************************************************************)
C16_LastKeyIsAKeyOfItsMapping ==
    /\ [](status = "running" =>
            \A i \in 1..Len(frames) :
                (IsDict(heap, frames[i].container) /\ frames[i].has_key)
                    => DictHas(heap[frames[i].container.n], frames[i].last_key))
    /\ [][(/\ LineRead /\ nlines > 0
           /\ C6_ItemWithKeyAndValue(raw_line)
           /\ C6_ItemWithKeyAndValue(raw_line')
           /\ SpacesBefore(raw_line') = SpacesBefore(raw_line)
           /\ IsDict(heap, Top(frames).container))
          => /\ status' = "running"
             /\ \E seq \in 1..Len(heap) :
                  /\ heap[seq].kind = "list"
                  /\ heap[seq].vals # <<>>
                  /\ heap[seq].vals[Len(heap[seq].vals)] = Ref(Len(heap))
                  /\ heap'[seq].vals = Append(heap[seq].vals, Ref(Len(heap')))
         ]_vars

(***************************************************************************)
(* C17.  A `k: v` line one level deeper than a Mapping frame whose         *)
(* last_key is unset, or is bound to a scalar given inline, makes the      *)
(* parse fail with the missing-nested-key error, and the tree is left as   *)
(* it was.                                                                 *)
(***************************************************************************)
\* The frame left on top when a line of raw's indent arrives.
C17_FrameBelow(raw) == Top(PopFrames(frames, SpacesBefore(raw)))

C17_NoChildUnderScalar ==
    [][(/\ LineRead
        /\ C6_KeyWithValue(raw_line')
        /\ SpacesBefore(raw_line') = C17_FrameBelow(raw_line').indent + 2
        /\ IsDict(heap, C17_FrameBelow(raw_line').container)
        /\ LET f == C17_FrameBelow(raw_line')
           IN \/ ~f.has_key
              \/ /\ DictHas(heap[f.container.n], f.last_key)
                 /\ DictGet(heap[f.container.n], f.last_key).t \notin {"pending", "ref"})
       => /\ status' = "error"
          /\ error' = Err("MissingNestedKey", raw_line')
          /\ heap' = heap
      ]_vars

(***************************************************************************)
(* C18.  An item line with nothing after its "- " marker, arriving at a    *)
(* frame whose container is a Sequence, is accepted and appends a Pending  *)
(* item to that Sequence.                                                  *)
(***************************************************************************)
\* raw is "- " after its indentation, with only whitespace or a comment after the marker.
C18_EmptyItem(raw) ==
    /\ StartsWith(LStrip(SplitHead(raw, "#")), <<"-", " ">>)
    /\ Strip(From(LStrip(SplitHead(raw, "#")), 3)) = <<>>

C18_EmptyItemAppendsPending ==
    [][(/\ LineRead
        /\ C18_EmptyItem(raw_line')
        /\ SpacesBefore(raw_line') % 2 = 0
        /\ Arrival(frames, heap, raw_line').err = NoError
        /\ IsList(Arrival(frames, heap, raw_line').heap,
                  Top(Arrival(frames, heap, raw_line').frames).container))
       => LET a == Arrival(frames, heap, raw_line')
              c == Top(a.frames).container
          IN /\ status' = "running"
             /\ heap'[c.n].vals = Append(a.heap[c.n].vals, PENDING)
      ]_vars

(***************************************************************************)
(* C19.  After a line of indent n is processed, the stack holds n/2 + 1    *)
(* frames, of indents 0, 2, ..., n from the bottom; the stack is never     *)
(* empty and the lost-indentation-context error is never raised.           *)
(***************************************************************************)
C19_StackShape ==
    /\ frames # <<>>
    /\ error.kind # "BrokenIndentContext"
    /\ status \in {"running", "done"} => \A i \in 1..Len(frames) : frames[i].indent = 2 * (i - 1)
    /\ (status = "running" /\ nlines > 0 /\ ~CommentOrWhitespaceOnly(raw_line))
         => Len(frames) = (SpacesBefore(raw_line) \div 2) + 1

\* A line at indent 0 was processed after a line two levels deep: two frames were popped.
C19_Witness ==
    /\ status = "running"
    /\ Len(frames) = 1
    /\ SpacesBefore(raw_line) = 0 /\ ~CommentOrWhitespaceOnly(raw_line)
    /\ Len(heap) >= 3
    /\ DictGet(heap[1], heap[1].keys[1]) = Ref(2)
    /\ heap[2].kind = "dict" /\ heap[2].vals = <<Ref(3)>>
    /\ heap[3].vals # <<>>

(***************************************************************************)
(* C20.  At every line boundary each frame above the root holds the value  *)
(* stored in the container of the frame below it: under that frame's       *)
(* last_key when that container is a Mapping, as its last element when it  *)
(* is a Sequence.                                                          *)
(***************************************************************************)
C20_FramesHoldLiveContainers ==
    status \in {"running", "done"} =>
        \A i \in 2..Len(frames) :
            LET lower == frames[i - 1]
                c     == frames[i].container
            IN /\ IsRef(c)
               /\ IsRef(lower.container)
               /\ IF IsDict(heap, lower.container)
                  THEN /\ lower.has_key
                       /\ DictHas(heap[lower.container.n], lower.last_key)
                       /\ DictGet(heap[lower.container.n], lower.last_key) = c
                  ELSE /\ heap[lower.container.n].vals # <<>>
                       /\ heap[lower.container.n].vals[Len(heap[lower.container.n].vals)] = c

\* Three frames are open: a Mapping, the Sequence under its key, and the last item of
\* that Sequence, which a line has written to.
C20_Witness ==
    /\ status = "running"
    /\ Len(frames) = 3
    /\ IsList(heap, frames[2].container)
    /\ IsDict(heap, frames[3].container)
    /\ Len(heap[frames[3].container.n].keys) >= 2

(***************************************************************************)
(* C21.  When a line is about to be processed, the container of every      *)
(* frame on the stack is a Mapping or a Sequence, and the                  *)
(* unsupported-container error is never raised.                            *)
(***************************************************************************)
C21_FramesHoldContainers ==
    /\ status = "running" =>
          \A i \in 1..Len(frames) :
              IsDict(heap, frames[i].container) \/ IsList(heap, frames[i].container)
    /\ error.kind # "UnsupportedContainerForNesting"

\* A line entered the slot of a scalar: the frame pushed for it holds the scalar, and
\* the line raised.
C21_Witness ==
    /\ status = "error"
    /\ Len(frames) >= 2
    /\ Top(frames).container.t \in {"str", "int"}

(***************************************************************************)
(* C22.  When a line is about to be processed, every Sequence that is the  *)
(* container of a frame holds at least one element, and the                *)
(* nothing-to-extend error is never raised.                                *)
(***************************************************************************)
C22_SequencesAreNeverEmpty ==
    /\ status = "running" =>
          \A i \in 1..Len(frames) :
              IsList(heap, frames[i].container) => heap[frames[i].container.n].vals # <<>>
    /\ error.kind # "EmptySequenceExtend"

\* A Sequence was created by the first item line under a bare key and holds that one
\* scalar item; its frame is open.
C22_Witness ==
    /\ status = "running"
    /\ Len(frames) = 2
    /\ IsList(heap, frames[2].container)
    /\ Len(heap[frames[2].container.n].vals) = 1
    /\ heap[frames[2].container.n].vals[1].t = "int"

(***************************************************************************)
(* C23.  When the dotted key path is not found in the file, the call of    *)
(* set_config_value raises the key-path-not-found error and the file is    *)
(* left as it was: no step of the call writes it.  The path is found when  *)
(* the file has lines l1 < l2 < ... < lk, none blank or a comment, line lj *)
(* at indent 2 * (j - 1) and beginning with the j-th key of the path.      *)
(***************************************************************************)
\* The line is neither blank nor a comment, has the indent, and its text up to ":" is key.
C23_LineBinds(line, key, indent) ==
    /\ TextOf(line) # <<>>
    /\ SpacesBefore(line) = indent
    /\ SplitHead(Strip(line), ":") = key

C23_PathInLines(file, keys) ==
    \E at \in [1..Len(keys) -> 1..Len(file)] :
        /\ \A j \in 1..(Len(keys) - 1) : at[j] < at[j + 1]
        /\ \A j \in 1..Len(keys) : C23_LineBinds(file[at[j]], keys[j], 2 * (j - 1))

C23_NotFoundLeavesFileUnchanged ==
    /\ [][~C23_PathInLines(cfg_file, SplitAll(cfg_key_path, "."))
            => (cfg_pc' # "written" /\ cfg_file' = cfg_file)]_vars
    /\ []((/\ cfg_pc = "loop"
           /\ cfg_idx >= Len(cfg_lines)
           /\ ~C23_PathInLines(cfg_file, SplitAll(cfg_key_path, ".")))
          => (~cfg_found /\ cfg_lines = cfg_file))
    /\ [](cfg_pc = "raised"
          => (~C23_PathInLines(cfg_file, SplitAll(cfg_key_path, ".")) /\ cfg_lines = cfg_file))

\* The call raised after it had found the first key of a two-key path.
C23_Witness ==
    /\ cfg_pc = "raised"
    /\ Len(SplitAll(cfg_key_path, ".")) = 2
    /\ Len(cfg_keys) = 1
    /\ Len(cfg_file) >= 2

====
